---- MODULE Spec2Model ----
(***************************************************************************)
(* Model of the 0g-gateway completion orchestration (src/src/gateway.ts).  *)
(*                                                                         *)
(* The repository holds two variants of class ZeroGOpenAIGateway:          *)
(*   "pinned"    gateway.ts:17-241,  one provider fixed at start-up, a      *)
(*               retry loop bounded by maxRetries;                          *)
(*   "directory" gateway.ts:308-578, provider found through the service     *)
(*               cache and listService, one call plus one repeated call     *)
(*               after a fee settlement.                                    *)
(* A behaviour is one gateway instance (of either variant) serving          *)
(* createChatCompletion calls one after the other.  An action is the code   *)
(* that runs between two awaits; pc names the outbound operation that is    *)
(* in flight.                                                               *)
(***************************************************************************)
EXTENDS Integers, Sequences, FiniteSets, TLC

\* ------------------------------------------------------------------ bounds

\* largest configured maxRetries explored (config.ts:26 defaults to 3)
MaxRetriesBound == 3

\* GET /v1/models requests that may be in flight at one time
MaxModelsRequests == 1

\* ------------------------------------------------------------- plain data

Absent == "<absent>"        \* a JSON field that is missing (undefined)
Undefined == "<undefined>"  \* a variable that was never assigned
NullBody == "<null>"        \* a response body that parses to JSON null

Providers == {"0xP1", "0xP2"}
Models == {"llama-3", "qwen"}
UnknownModel == "unknown-model"
RequestedModels == {"llama-3", UnknownModel}

\* ---------------------------------------------------- error text, as tokens
\* A text is a sequence of blank-separated tokens, a token a sequence of
\* characters (word tokens are kept whole in one element).

SF == <<"settleFee:">>
EXP == <<"expected">>
A0GI == <<"A0GI">>
N15 == <<"1", ".", "5">>
N20 == <<"2", ".", "0">>
N2 == <<"2">>
NDots == <<"1", ".", "5", ".">>

DigitChars == {"0", "1", "2", "5"}
NumChars == DigitChars \cup {"."}

DigitVal(c) == CASE c = "0" -> 0 [] c = "1" -> 1 [] c = "2" -> 2 [] c = "5" -> 5

\* the class [\d.]+ of both regular expressions, on one token
IsNumToken(tok) == Len(tok) >= 1 /\ \A i \in 1..Len(tok) : tok[i] \in NumChars

NaN == [nan |-> TRUE, num |-> 0, den |-> 1]

RECURSIVE Pow10(_)
Pow10(k) == IF k = 0 THEN 1 ELSE 10 * Pow10(k - 1)

RECURSIVE DigitsValue(_)
DigitsValue(ds) ==
  IF ds = <<>> THEN 0
  ELSE 10 * DigitsValue(SubSeq(ds, 1, Len(ds) - 1)) + DigitVal(ds[Len(ds)])

RECURSIVE Reduce(_, _)
Reduce(n, d) ==
  IF d > 1 /\ n % 10 = 0 THEN Reduce(n \div 10, d \div 10)
  ELSE [nan |-> FALSE, num |-> n, den |-> d]

\* Number(s) of JavaScript on a string of digits and dots: the decimal value
\* as a reduced fraction num/den, NaN for more than one dot or no digit.
Number(tok) ==
  LET dots == {i \in 1..Len(tok) : tok[i] = "."}
  IN  IF Cardinality(dots) > 1 \/ Cardinality(dots) = Len(tok) THEN NaN
      ELSE IF dots = {} THEN Reduce(DigitsValue(tok), 1)
      ELSE LET p == CHOOSE i \in dots : TRUE
               whole == SubSeq(tok, 1, p - 1)
               frac == SubSeq(tok, p + 1, Len(tok))
           IN  Reduce(DigitsValue(whole) * Pow10(Len(frac)) + DigitsValue(frac),
                      Pow10(Len(frac)))

\* String.prototype.includes("settleFee") on the error text
IncludesSettleFee(text) == \E i \in 1..Len(text) : text[i] = SF

\* result.error.match(/expected ([\d.]+) A0GI/): the positions of a match
FeeMatchAt(text) ==
  {i \in 1..Len(text) :
     /\ i + 2 <= Len(text)
     /\ text[i] = EXP
     /\ IsNumToken(text[i + 1])
     /\ text[i + 2] = A0GI}

Min(S) == CHOOSE x \in S : \A y \in S : x <= y

\* feeMatch[1] of the leftmost match, Absent when match() returns null
feeMatch(text) ==
  IF FeeMatchAt(text) = {} THEN Absent ELSE text[Min(FeeMatchAt(text)) + 1]

\* error.error.match(/(?<=expected\s)([0-9.]+)/): positions of a match
LookbehindMatchAt(text) ==
  {i \in 1..Len(text) :
     /\ i + 1 <= Len(text)
     /\ text[i] = EXP
     /\ IsNumToken(text[i + 1])}

\* match[1] of the leftmost match, Absent when match() returns null
lookbehindMatch(text) ==
  IF LookbehindMatchAt(text) = {} THEN Absent
  ELSE text[Min(LookbehindMatchAt(text)) + 1]

\* ------------------------------------------------------ provider responses

\* the error field of a response body (InferenceResult.error, APIError.error)
NoError == [kind |-> "absent", text |-> <<>>]
ObjectError == [kind |-> "object", text |-> <<>>]
TextError(t) == [kind |-> "string", text |-> t]

TIMEOUT == <<"timeout">>

\* the error texts a provider answers with: the shortfall message of the
\* provider in its known form, and texts that differ from it in one respect
ErrorTexts ==
  { <<>>,                          \* ""
    <<TIMEOUT>>,                   \* "timeout"
    <<SF>>,                        \* "settleFee:"
    <<SF, EXP, N15, A0GI>>,        \* "settleFee: expected 1.5 A0GI"
    <<SF, EXP, N20, A0GI>>,        \* "settleFee: expected 2.0 A0GI"
    <<SF, EXP, N2, A0GI>>,         \* "settleFee: expected 2 A0GI"
    <<SF, EXP, NDots, A0GI>>,      \* "settleFee: expected 1.5. A0GI"
    <<SF, EXP, N15>>,              \* "settleFee: expected 1.5"
    <<EXP, N15, A0GI>>,            \* "expected 1.5 A0GI"
    <<EXP, N20, TIMEOUT>> }        \* "expected 2.0 timeout"
Errors == {NoError, ObjectError} \cup {TextError(t) : t \in ErrorTexts}

\* choices[0] of a response: message may be missing, content may be ""
Choice(hasMessage, text) == [hasMessage |-> hasMessage, content |-> text]
ChoiceLists ==
  {<<>>, <<Choice(FALSE, Absent)>>, <<Choice(TRUE, "")>>, <<Choice(TRUE, "hello")>>}
Ids == {Absent, "chatcmpl-7"}

NoResult ==
  [body |-> Undefined, hasChoices |-> FALSE, choices |-> <<>>,
   error |-> NoError, id |-> Absent]
NullResult == [NoResult EXCEPT !.body = NullBody]
JsonResults ==
  [body : {"object"}, hasChoices : {TRUE}, choices : ChoiceLists,
   error : Errors, id : Ids]
  \cup [body : {"object"}, hasChoices : {FALSE}, choices : {<<>>},
        error : Errors, id : Ids]
\* what response.json() can give (gateway.ts:276)
InferenceResults == JsonResults \cup {NullResult}

\* result?.choices?.[0]?.message?.content (gateway.ts:154, 186, 196)
ContentOf(r) ==
  IF r.body = "object" /\ r.hasChoices /\ Len(r.choices) >= 1
     /\ r.choices[1].hasMessage
  THEN r.choices[1].content
  ELSE Absent

\* truthiness of a string value
Truthy(s) == s # Absent /\ s # ""

\* ------------------------------------------------- messages and content
\* A string is the sequence of its parts: a role, the separator ": " and the
\* line break are one part each, the content of a message is one part per
\* character.

MaxMessages == 2

NL == "\n"

\* msg.content as the JSON body gives it: a string, or no content field
Str(t) == [kind |-> "string", text |-> t]
UndefinedContent == [kind |-> "undefined", text |-> <<>>]

Roles == {"system", "user"}
MessageContents == {Str(<<"h", "i">>), Str(<<"a", NL, "b">>), UndefinedContent}
ChatMessages == [role : Roles, content : MessageContents]

\* the non-empty message arrays of up to MaxMessages messages
RECURSIVE ArraysOf(_)
ArraysOf(n) ==
  IF n = 0 THEN {<<>>}
  ELSE ArraysOf(n - 1)
       \cup {Append(a, m) : a \in {b \in ArraysOf(n - 1) : Len(b) = n - 1},
                             m \in ChatMessages}
MessageArrays == ArraysOf(MaxMessages) \ {<<>>}

\* ${...} of a template literal: a value that is no string reads "undefined"
StringOf(v) == IF v.kind = "string" THEN v.text ELSE <<"undefined">>

\* `${msg.role}: ${msg.content}`
Render(msg) == <<msg.role, ": ">> \o StringOf(msg.content)

\* messages.map((msg) => ...)
MapRender(msgs) == [i \in 1..Len(msgs) |-> Render(msgs[i])]

\* a join that puts the parts in the reverse order
RECURSIVE JoinReversed(_, _)
JoinReversed(parts, sep) ==
  IF parts = <<>> THEN <<>>
  ELSE IF Len(parts) = 1 THEN parts[1]
  ELSE JoinReversed(Tail(parts), sep) \o <<sep>> \o parts[1]

\* Array.prototype.join(sep)
RECURSIVE Join(_, _)
Join(parts, sep) ==
  IF parts = <<>> THEN <<>>
  ELSE IF Len(parts) = 1 THEN parts[1]
  ELSE parts[1] \o <<sep>> \o Join(Tail(parts), sep)

\* const content = messages.map(...).join("\n")
Flatten(msgs) == Join(MapRender(msgs), NL)

\* body: JSON.stringify({ messages: [{ role: "system", content }], model })
SystemMessage(text) == [role |-> "system", content |-> Str(text)]

\* ------------------------------------------------------------------ state

VARIABLES
  variant,         \* which ZeroGOpenAIGateway class is deployed
  maxRetries,      \* this.maxRetries (pinned)
  model,           \* this.model (pinned)
  providerAddress, \* this.providerAddress (pinned), the local of the same name (directory)
  directory,       \* what broker.inference.listService() answers
  serviceCache,    \* this.serviceCache, in insertion order (directory)
  pc,              \* the await the current call is suspended at
  reqModel,        \* the first argument of createChatCompletion
  retryCount,      \* let retryCount (pinned)
  result,          \* let result (pinned), let completion (directory)
  currentHeaders,  \* const currentHeaders (pinned), const headers (directory)
  outcome,         \* how the call ended: the returned object or the thrown error
  \* the calls made on the broker and the provider by the current call
  hdrCalls,        \* number of getRequestHeaders calls
  infCalls,        \* number of inference calls to the provider
  settleCalls,     \* number of settleFee calls
  listCalls,       \* number of listService calls
  metaCalls,       \* number of getServiceMetadata calls
  lastSettle,      \* the arguments of the latest settleFee call
  infHeaders,      \* the header set the latest inference call was sent with
  prevInfHeaders,  \* the header set of the inference call before that
  sinceSettle,     \* what has happened since the latest successful settleFee
  lastReply,       \* the latest answer to an outbound operation of the call
  scenario,        \* progress along "shortfall, settled, success"
  allTransient,    \* every attempt so far was answered by an error unrelated to fees
  endpoint,        \* const endpoint of getServiceMetadata (directory)
  modelsInFlight,  \* GET /v1/models requests suspended in getModels at listService
  cachedAtStart,   \* the first cache scan of the call met the requested model
  refreshed,       \* a getModels has completed since the directory last changed
  resolutions,     \* the resolutions made since the directory last changed
  body,            \* the JSON body of the latest POST /v1/chat/completions
  response,        \* the latest answer of the chat-completions route
  cancel,          \* whether the caller has gone, and the settleFee calls made by then
  inFlight,        \* the outbound operations of the call that have not completed
  messages,        \* the second argument of createChatCompletion
  content,         \* const content
  signed,          \* the content argument of the latest getRequestHeaders call
  sent             \* the messages in the body of the latest inference call

gatewayVars == <<variant, maxRetries, model, directory, serviceCache>>
callVars == <<pc, reqModel, providerAddress, retryCount, result, currentHeaders, outcome>>
countVars == <<hdrCalls, infCalls, settleCalls, listCalls, metaCalls, lastSettle,
               infHeaders, prevInfHeaders>>
traceVars == <<sinceSettle, scenario, allTransient>>
cacheObs == <<endpoint, modelsInFlight, cachedAtStart, refreshed, resolutions>>
httpVars == <<body, response>>
quietVars == <<cacheObs, httpVars, cancel>>
sideVars == <<quietVars, inFlight>>
contentVars == <<messages, content, signed, sent>>
vars == <<gatewayVars, callVars, countVars, traceVars, lastReply, sideVars,
          contentVars>>

NoSettle == [provider |-> Absent, amount |-> NaN]
NoHeaders == 0

\* usage: { prompt_tokens: 0, completion_tokens: 0, total_tokens: 0 }
ZeroUsage == [prompt_tokens |-> 0, completion_tokens |-> 0, total_tokens |-> 0]

\* choices is the number of elements of the returned choices array; index,
\* role, content and finish_reason are those of its only element
NoOutcome ==
  [kind |-> "pending", error |-> "", op |-> "", cause |-> NoError,
   id |-> Absent, model |-> Absent, content |-> Absent, finish_reason |-> Absent,
   choices |-> 0, index |-> 0, role |-> Absent, usage |-> ZeroUsage]
Returned(id, m, text) ==
  [kind |-> "returned", error |-> "", op |-> "", cause |-> NoError,
   id |-> id, model |-> m, content |-> text, finish_reason |-> "stop",
   choices |-> 1, index |-> 0, role |-> "assistant", usage |-> ZeroUsage]
\* an error created by the gateway itself
Threw(message) == [NoOutcome EXCEPT !.kind = "threw", !.error = message]
\* an error of the broker or the provider, passed on by the outer catch
Rethrew(op, cause) ==
  [NoOutcome EXCEPT !.kind = "threw", !.error = "upstream", !.op = op, !.cause = cause]

\* values of the variables before anything was assigned to them
NoEndpoint == <<>>
NoMessages == [kind |-> "absent", items |-> <<>>]
NoBody == [json |-> Undefined, model |-> Undefined, messages |-> NoMessages]
NoResponse ==
  [status |-> 0, keys |-> {}, message |-> "", type |-> "", param |-> "", code |-> ""]
NotCancelled == [requested |-> FALSE, settleCalls |-> 0]
NoContent == <<Undefined>>

ScenarioStart == [stage |-> "start", amt |-> <<>>]
ScenarioOff == [stage |-> "off", amt |-> <<>>]

\* the state of a call that has not begun
CallReset ==
  /\ pc' = "idle"
  /\ reqModel' = Absent
  /\ retryCount' = 0
  /\ result' = NoResult
  /\ currentHeaders' = NoHeaders
  /\ outcome' = NoOutcome
  /\ hdrCalls' = 0 /\ infCalls' = 0 /\ settleCalls' = 0
  /\ listCalls' = 0 /\ metaCalls' = 0
  /\ lastSettle' = NoSettle
  /\ infHeaders' = NoHeaders /\ prevInfHeaders' = NoHeaders
  /\ sinceSettle' = "none"
  /\ lastReply' = "none"
  /\ scenario' = ScenarioStart
  /\ allTransient' = TRUE

\* ------------------------------------------------- what the claims observe

\* an error value that says nothing about fees
UnrelatedToFees(e) ==
  \/ e.kind = "object"
  \/ /\ e.kind = "string"
     /\ e.text # <<>>
     /\ \A i \in 1..Len(e.text) : e.text[i] = TIMEOUT

\* a token that reads as a decimal number
IsDecimal(tok) == IsNumToken(tok) /\ ~Number(tok).nan

\* the text "settleFee: expected <a> A0GI"
IsShortfallText(t) ==
  Len(t) = 4 /\ t[1] = SF /\ t[2] = EXP /\ IsDecimal(t[3]) /\ t[4] = A0GI

\* scenario "first response a shortfall, settlement succeeds, second response
\* has content": where the call stands after attempt number `attempt` was
\* answered by r
ScenarioOnResponse(s, attempt, r) ==
  IF /\ s.stage = "start" /\ attempt = 1
     /\ ~Truthy(ContentOf(r))
     /\ r.error.kind = "string" /\ IsShortfallText(r.error.text)
  THEN [stage |-> "short", amt |-> r.error.text[3]]
  ELSE IF s.stage = "settled" /\ attempt = 2 /\ Truthy(ContentOf(r))
  THEN [stage |-> "hit", amt |-> s.amt]
  ELSE ScenarioOff

ScenarioOnSettled(s) ==
  IF s.stage = "short" THEN [stage |-> "settled", amt |-> s.amt] ELSE ScenarioOff

\* the resolutions on record, after one more getModels has completed
AfterRefresh(rs) == {[r EXCEPT !.refreshedSince = TRUE] : r \in rs}

\* the resolutions on record, after model m was resolved to provider p at e
AfterResolution(rs, m, p, e) ==
  {r \in rs : r.model # m \/ r.provider # p \/ r.endpoint # e}
  \cup {[model |-> m, provider |-> p, endpoint |-> e, refreshedSince |-> FALSE]}

\* an operation that is not waited for: it is still outstanding when the
\* code goes on
CompleteNothing(ops, op) == ops

\* await f(...): the operation is issued, and the code goes on only when it
\* has completed
Complete(ops, op) == ops \ {op}
Issue(ops, op) == ops \cup {op}

\* some entry of the cache is for model m
Holds(cache, m) == \E i \in 1..Len(cache) : cache[i].model = m

\* the records of a listing or of the cache, as a set
Records(seq) == {seq[i] : i \in 1..Len(seq)}

\* ------------------------------------------- pinned gateway (retry loop)

\* the loop test with the bound taken inclusively
LoopConditionInclusive(rc) == rc <= maxRetries

\* while (retryCount < this.maxRetries)
LoopCondition(rc) == rc < maxRetries

\* a catch block that forgets to count the failed attempt
CatchIncrementNone(rc) == rc

\* retryCount++ of the catch block
CatchIncrement(rc) == rc + 1

\* a try block that forgets to count the failed attempt
TryIncrementNone(rc) == rc

\* a try block that counts a failed attempt twice
TryIncrementTwice(rc) == rc + 2

\* retryCount++ at the end of the try block
TryIncrement(rc) == rc + 1

\* the code after the loop without its check of receivedContent
AfterLoopNoContentCheck(r) ==
  IF r.body # "object" \/ ~r.hasChoices
  THEN Threw("No valid completion received")
  ELSE Returned(IF Truthy(r.id) THEN r.id ELSE "1", model, ContentOf(r))

\* the code after the loop: the thrown error or the returned object
AfterLoop(r) ==
  IF r.body # "object" \/ ~r.hasChoices
  THEN Threw("No valid completion received")
  ELSE IF ~Truthy(ContentOf(r))
  THEN Threw("No content received.")
  ELSE Returned(IF Truthy(r.id) THEN r.id ELSE "1", model, ContentOf(r))

\* if (result?.choices?.[0]?.message?.content) break
IsValidResponse(r) == Truthy(ContentOf(r))

\* if (result.error?.includes("settleFee")) { feeMatch = ...; if (feeMatch)
NeedsSettlement(r) ==
  /\ r.error.kind = "string"
  /\ IncludesSettleFee(r.error.text)
  /\ feeMatch(r.error.text) # Absent

\* the fee read up to its decimal point only, as parseInt would
expectedFeeInteger(r) == Number(<<Head(feeMatch(r.error.text))>>)

\* const expectedFee = Number(feeMatch[1])
expectedFee(r) == Number(feeMatch(r.error.text))

\* a try block that looks at the fee error before it looks at the content
EvaluateSettleFirst(r) ==
  IF r.body = NullBody THEN "throw"
  ELSE IF NeedsSettlement(r) THEN "settle"
  ELSE IF IsValidResponse(r) THEN "break"
  ELSE IF r.error.kind = "object" THEN "throw"
  ELSE "retry"

\* what the try block does with the response of one attempt:
\* "break", "settle", "retry" or "throw" (a TypeError, caught by the catch)
Evaluate(r) ==
  IF IsValidResponse(r) THEN "break"
  ELSE IF r.body = NullBody \/ r.error.kind = "object" THEN "throw"
  ELSE IF NeedsSettlement(r) THEN "settle"
  ELSE "retry"

\* the loop test and what follows it: the next getNewHeaders call, or the
\* code after the loop
LoopHead(rc, r) ==
  IF LoopCondition(rc)
  THEN /\ pc' = "sign"
       /\ hdrCalls' = hdrCalls + 1
       /\ inFlight' = Issue(inFlight, "getRequestHeaders")
       /\ signed' = content'
       /\ outcome' = outcome
       /\ sinceSettle' = IF sinceSettle = "settled" THEN "signed" ELSE sinceSettle
  ELSE /\ pc' = "done"
       /\ outcome' = AfterLoop(r)
       /\ UNCHANGED <<hdrCalls, sinceSettle, inFlight, signed>>

PinnedCreateChatCompletion(m, msgs) ==
  /\ UNCHANGED lastReply
  /\ messages' = msgs
  /\ content' = Flatten(msgs)
  /\ UNCHANGED sent
  /\ UNCHANGED <<cacheObs, cancel>>
  /\ variant = "pinned"
  /\ pc = "idle"
  /\ reqModel' = m
  /\ retryCount' = 0
  /\ result' = NoResult
  /\ LoopHead(0, NoResult)
  /\ UNCHANGED <<gatewayVars, providerAddress, currentHeaders, infCalls, settleCalls,
                 listCalls, metaCalls, lastSettle, infHeaders, prevInfHeaders,
                 scenario, allTransient>>

\* getNewHeaders resolves; makeInferenceRequest is called with the headers
PinnedHeadersReturn ==
  /\ lastReply' = "headers resolved"
  /\ sent' = <<SystemMessage(content)>>
  /\ UNCHANGED <<messages, content, signed>>
  /\ inFlight' = Issue(Complete(inFlight, "getRequestHeaders"), "inference")
  /\ UNCHANGED quietVars
  /\ variant = "pinned"
  /\ pc = "sign"
  /\ currentHeaders' = hdrCalls
  /\ pc' = "call"
  /\ infCalls' = infCalls + 1
  /\ prevInfHeaders' = infHeaders
  /\ infHeaders' = currentHeaders'
  /\ sinceSettle' = "none"
  /\ UNCHANGED <<gatewayVars, reqModel, providerAddress, retryCount, result, outcome,
                 hdrCalls, settleCalls, listCalls, metaCalls, lastSettle,
                 scenario, allTransient>>

\* getNewHeaders rejects: catch (error) { retryCount++; await delay }
PinnedHeadersThrow ==
  /\ lastReply' = "headers rejected"
  /\ UNCHANGED contentVars
  /\ inFlight' = Complete(inFlight, "getRequestHeaders")
  /\ UNCHANGED quietVars
  /\ variant = "pinned"
  /\ pc = "sign"
  /\ retryCount' = CatchIncrement(retryCount)
  /\ pc' = "delay"
  /\ scenario' = ScenarioOff
  /\ allTransient' = FALSE
  /\ UNCHANGED <<gatewayVars, reqModel, providerAddress, result, currentHeaders,
                 outcome, countVars, sinceSettle>>

\* makeInferenceRequest resolves with r
PinnedInferenceReturn(r) ==
  /\ lastReply' = "inference resolved"
  /\ UNCHANGED contentVars
  /\ inFlight' = IF Evaluate(r) = "settle"
                 THEN Issue(Complete(inFlight, "inference"), "settleFee")
                 ELSE Complete(inFlight, "inference")
  /\ UNCHANGED quietVars
  /\ variant = "pinned"
  /\ pc = "call"
  /\ result' = r
  /\ scenario' = ScenarioOnResponse(scenario, retryCount + 1, r)
  /\ allTransient' =
       (allTransient /\ ~Truthy(ContentOf(r)) /\ UnrelatedToFees(r.error))
  /\ CASE Evaluate(r) = "break" ->
            /\ pc' = "done"
            /\ outcome' = AfterLoop(r)
            /\ UNCHANGED <<retryCount, settleCalls, lastSettle>>
       [] Evaluate(r) = "settle" ->
            /\ pc' = "settle"
            /\ settleCalls' = settleCalls + 1
            /\ lastSettle' = [provider |-> providerAddress, amount |-> expectedFee(r)]
            /\ UNCHANGED <<retryCount, outcome>>
       [] Evaluate(r) = "retry" ->
            /\ retryCount' = TryIncrement(retryCount)
            /\ pc' = "delay"
            /\ UNCHANGED <<outcome, settleCalls, lastSettle>>
       [] Evaluate(r) = "throw" ->
            /\ retryCount' = CatchIncrement(retryCount)
            /\ pc' = "delay"
            /\ UNCHANGED <<outcome, settleCalls, lastSettle>>
  /\ UNCHANGED <<gatewayVars, reqModel, providerAddress, currentHeaders, hdrCalls,
                 infCalls, listCalls, metaCalls, infHeaders, prevInfHeaders,
                 sinceSettle>>

\* fetch or response.json() rejects: result keeps its earlier value
PinnedInferenceThrow ==
  /\ lastReply' = "inference rejected"
  /\ UNCHANGED contentVars
  /\ inFlight' = Complete(inFlight, "inference")
  /\ UNCHANGED quietVars
  /\ variant = "pinned"
  /\ pc = "call"
  /\ retryCount' = CatchIncrement(retryCount)
  /\ pc' = "delay"
  /\ scenario' = ScenarioOff
  /\ allTransient' = FALSE
  /\ UNCHANGED <<gatewayVars, reqModel, providerAddress, result, currentHeaders,
                 outcome, countVars, sinceSettle>>

\* settleFee resolves: "Fee settled successfully", retryCount++, delay
PinnedSettleReturn ==
  /\ lastReply' = "settle resolved"
  /\ UNCHANGED contentVars
  /\ inFlight' = Complete(inFlight, "settleFee")
  /\ UNCHANGED quietVars
  /\ variant = "pinned"
  /\ pc = "settle"
  /\ retryCount' = TryIncrement(retryCount)
  /\ pc' = "delay"
  /\ sinceSettle' = "settled"
  /\ scenario' = ScenarioOnSettled(scenario)
  /\ UNCHANGED <<gatewayVars, reqModel, providerAddress, result, currentHeaders,
                 outcome, countVars, allTransient>>

\* settleFee rejects: caught by the catch of the loop body
PinnedSettleThrow ==
  /\ lastReply' = "settle rejected"
  /\ UNCHANGED contentVars
  /\ inFlight' = Complete(inFlight, "settleFee")
  /\ UNCHANGED quietVars
  /\ variant = "pinned"
  /\ pc = "settle"
  /\ retryCount' = CatchIncrement(retryCount)
  /\ pc' = "delay"
  /\ scenario' = ScenarioOff
  /\ UNCHANGED <<gatewayVars, reqModel, providerAddress, result, currentHeaders,
                 outcome, countVars, sinceSettle, allTransient>>

\* the one-second delay ends: back to the loop test
PinnedDelayElapsed ==
  /\ lastReply' = "delay resolved"
  /\ UNCHANGED <<messages, content, sent>>
  /\ UNCHANGED quietVars
  /\ variant = "pinned"
  /\ pc = "delay"
  /\ LoopHead(retryCount, result)
  /\ UNCHANGED <<gatewayVars, reqModel, providerAddress, retryCount, result,
                 currentHeaders, infCalls, settleCalls, listCalls, metaCalls,
                 lastSettle, infHeaders, prevInfHeaders, scenario, allTransient>>

\* ---------------------------------------- directory gateway (service cache)

Services == [provider : Providers, model : Models]

\* the listings the broker may answer with, in the order it gives them
Listings ==
  {<<>>} \cup {<<a>> : a \in Services} \cup {<<a, b>> : a, b \in Services}

\* the key `${service.provider}:${service.model}` of the cache
CacheKey(svc) == <<svc.provider, svc.model>>

\* a set that deletes a known key first, so that the key goes last
CacheSetMoveLast(cache, svc) ==
  Append(SelectSeq(cache, LAMBDA c : CacheKey(c) # CacheKey(svc)), svc)

\* Map.prototype.set: a known key keeps its place, a new key goes last
CacheSet(cache, svc) ==
  IF \E i \in 1..Len(cache) : CacheKey(cache[i]) = CacheKey(svc)
  THEN [i \in 1..Len(cache) |->
          IF CacheKey(cache[i]) = CacheKey(svc) THEN svc ELSE cache[i]]
  ELSE Append(cache, svc)

\* a write loop that stops after the first service of the listing
CacheFirstOnly(cache, services) ==
  IF services = <<>> THEN cache ELSE CacheSet(cache, Head(services))

\* for (const service of services) this.serviceCache.set(...)
RECURSIVE CacheAll(_, _)
CacheAll(cache, services) ==
  IF services = <<>> THEN cache
  ELSE CacheAll(CacheSet(cache, Head(services)), Tail(services))

\* a lookup that takes the first entry without comparing its model
CacheFindAny(cache, m) == IF cache = <<>> THEN 0 ELSE 1

\* for (const [key, service] of this.serviceCache.entries())
\*   if (service.model === model) { ...; break }
\* the index of the entry found, 0 when the loop finds none
CacheFind(cache, m) ==
  LET hits == {i \in 1..Len(cache) : cache[i].model = m}
  IN  IF hits = {} THEN 0 ELSE Min(hits)

\* the completions a 2xx answer can carry (its error field is not read here)
Completions == {r \in InferenceResults : r.error = NoError}

\* if (error.error && typeof error.error === "string") { match = ...; if (match)
DirNeedsSettlement(e) ==
  /\ e.kind = "string"
  /\ e.text # <<>>
  /\ lookbehindMatch(e.text) # Absent

\* const feeToPay: number = Number(match[1])
feeToPay(e) == Number(lookbehindMatch(e.text))

\* a first lookup that is taken to have failed whatever the scan found
CacheMissAlways(idx) == TRUE

\* if (!providerAddress || !serviceInfo) after the first scan
CacheMiss(idx) == idx = 0

\* the endpoint getServiceMetadata(providerAddress) answers with: the broker
\* keeps one service, with one url, per provider address
EndpointOf(provider) == <<"endpoint of", provider>>

\* the provider was found: getServiceMetadata is called
DirResolved(cache, m, ops) ==
  /\ inFlight' = Issue(ops, "getServiceMetadata")
  /\ providerAddress' = cache[CacheFind(cache, m)].provider
  /\ metaCalls' = metaCalls + 1
  /\ pc' = "meta"
  /\ outcome' = outcome

DirCreateChatCompletion(m, msgs) ==
  /\ UNCHANGED lastReply
  /\ messages' = msgs
  /\ UNCHANGED <<content, signed, sent>>
  /\ cachedAtStart' = Holds(serviceCache, m)
  /\ UNCHANGED <<endpoint, modelsInFlight, refreshed, resolutions, cancel>>
  /\ variant = "directory"
  /\ pc = "idle"
  /\ reqModel' = m
  /\ IF ~CacheMiss(CacheFind(serviceCache, m))
     THEN /\ DirResolved(serviceCache, m, inFlight)
          /\ UNCHANGED listCalls
     ELSE /\ listCalls' = listCalls + 1
          /\ inFlight' = Issue(inFlight, "listService")
          /\ pc' = "list"
          /\ UNCHANGED <<providerAddress, metaCalls, outcome>>
  /\ UNCHANGED <<gatewayVars, retryCount, result, currentHeaders, hdrCalls, infCalls,
                 settleCalls, lastSettle, infHeaders, prevInfHeaders, traceVars>>

\* listService resolves: getModels fills the cache, the lookup is repeated
DirListReturn ==
  /\ lastReply' = "list resolved"
  /\ UNCHANGED contentVars
  /\ refreshed' = TRUE
  /\ resolutions' = AfterRefresh(resolutions)
  /\ UNCHANGED <<endpoint, modelsInFlight, cachedAtStart, httpVars, cancel>>
  /\ variant = "directory"
  /\ pc = "list"
  /\ serviceCache' = CacheAll(serviceCache, directory)
  /\ IF CacheFind(serviceCache', reqModel) # 0
     THEN DirResolved(serviceCache', reqModel, Complete(inFlight, "listService"))
     ELSE /\ pc' = "done"
          /\ inFlight' = Complete(inFlight, "listService")
          /\ outcome' = [Threw("Model not found") EXCEPT !.model = reqModel]
          /\ UNCHANGED <<providerAddress, metaCalls>>
  /\ UNCHANGED <<variant, maxRetries, model, directory, reqModel, retryCount, result,
                 currentHeaders, hdrCalls, infCalls, settleCalls, listCalls,
                 lastSettle, infHeaders, prevInfHeaders, traceVars>>

\* an await rejects and nothing catches it before the outer catch rethrows
DirFail(op, cause) ==
  /\ variant = "directory"
  /\ pc' = "done"
  /\ outcome' = Rethrew(op, cause)
  /\ inFlight' = Complete(inFlight, op)
  /\ UNCHANGED quietVars
  /\ UNCHANGED contentVars
  /\ UNCHANGED <<gatewayVars, reqModel, providerAddress, retryCount, result,
                 currentHeaders, countVars, traceVars>>

DirListThrow ==
  /\ lastReply' = "list rejected"
  /\ pc = "list"
  /\ DirFail("listService", NoError)

\* getServiceMetadata resolves: getRequestHeaders is called
DirMetadataReturn ==
  /\ lastReply' = "metadata resolved"
  /\ content' = Flatten(messages)
  /\ signed' = content'
  /\ UNCHANGED <<messages, sent>>
  /\ endpoint' = EndpointOf(providerAddress)
  /\ resolutions' = AfterResolution(resolutions, reqModel, providerAddress, endpoint')
  /\ inFlight' = Issue(Complete(inFlight, "getServiceMetadata"), "getRequestHeaders")
  /\ UNCHANGED <<modelsInFlight, cachedAtStart, refreshed, httpVars, cancel>>
  /\ variant = "directory"
  /\ pc = "meta"
  /\ hdrCalls' = hdrCalls + 1
  /\ pc' = "sign"
  /\ UNCHANGED <<gatewayVars, reqModel, providerAddress, retryCount, result,
                 currentHeaders, outcome, infCalls, settleCalls, listCalls, metaCalls,
                 lastSettle, infHeaders, prevInfHeaders, traceVars>>

DirMetadataThrow ==
  /\ lastReply' = "metadata rejected"
  /\ pc = "meta"
  /\ DirFail("getServiceMetadata", NoError)

\* getRequestHeaders resolves: openai.chat.completions.create is called
DirHeadersReturn ==
  /\ lastReply' = "headers resolved"
  /\ sent' = messages
  /\ UNCHANGED <<messages, content, signed>>
  /\ inFlight' = Issue(Complete(inFlight, "getRequestHeaders"), "completion")
  /\ UNCHANGED quietVars
  /\ variant = "directory"
  /\ pc = "sign"
  /\ currentHeaders' = hdrCalls
  /\ infCalls' = infCalls + 1
  /\ prevInfHeaders' = infHeaders
  /\ infHeaders' = currentHeaders'
  /\ pc' = "call"
  /\ UNCHANGED <<gatewayVars, reqModel, providerAddress, retryCount, result, outcome,
                 hdrCalls, settleCalls, listCalls, metaCalls, lastSettle, traceVars>>

DirHeadersThrow ==
  /\ lastReply' = "headers rejected"
  /\ pc = "sign"
  /\ DirFail("getRequestHeaders", NoError)

\* the code after the try block, on the completion c
DirAccept(c) ==
  /\ result' = c
  /\ IF c.body # "object" \/ ~c.hasChoices
     THEN /\ pc' = "done"
          /\ inFlight' = Complete(inFlight, "completion")
          /\ outcome' = Threw("No valid completion received")
     ELSE IF Len(c.choices) = 0 \/ ~c.choices[1].hasMessage
     THEN /\ pc' = "done"
          /\ inFlight' = Complete(inFlight, "completion")
          /\ outcome' = Threw("TypeError")
     ELSE IF ~Truthy(c.choices[1].content)
     THEN /\ pc' = "done"
          /\ inFlight' = Complete(inFlight, "completion")
          /\ outcome' = Threw("No content received.")
     ELSE /\ pc' = "process"
          /\ inFlight' = Issue(Complete(inFlight, "completion"), "processResponse")
          /\ outcome' = outcome

\* create() resolves with c
DirCompletionReturn(c) ==
  /\ lastReply' = "inference resolved"
  /\ UNCHANGED contentVars
  /\ UNCHANGED quietVars
  /\ variant = "directory"
  /\ pc = "call"
  /\ DirAccept(c)
  /\ UNCHANGED <<gatewayVars, reqModel, providerAddress, retryCount, currentHeaders,
                 countVars, traceVars>>

\* create() rejects with an error whose error field is e
DirCompletionThrow(e) ==
  /\ lastReply' = "inference rejected"
  /\ UNCHANGED contentVars
  /\ inFlight' = IF DirNeedsSettlement(e)
                 THEN Issue(Complete(inFlight, "completion"), "settleFee")
                 ELSE Complete(inFlight, "completion")
  /\ UNCHANGED quietVars
  /\ variant = "directory"
  /\ pc = "call"
  /\ IF DirNeedsSettlement(e)
     THEN /\ settleCalls' = settleCalls + 1
          /\ lastSettle' = [provider |-> providerAddress, amount |-> feeToPay(e)]
          /\ pc' = "settle"
          /\ outcome' = outcome
     ELSE /\ pc' = "done"
          /\ outcome' = Rethrew("completion", e)
          /\ UNCHANGED <<settleCalls, lastSettle>>
  /\ UNCHANGED <<gatewayVars, reqModel, providerAddress, retryCount, result,
                 currentHeaders, hdrCalls, infCalls, listCalls, metaCalls,
                 infHeaders, prevInfHeaders, traceVars>>

\* settleFee resolves: create() is called again
DirSettleReturn ==
  /\ lastReply' = "settle resolved"
  /\ sent' = messages
  /\ UNCHANGED <<messages, content, signed>>
  /\ inFlight' = Issue(Complete(inFlight, "settleFee"), "completion")
  /\ UNCHANGED quietVars
  /\ variant = "directory"
  /\ pc = "settle"
  /\ infCalls' = infCalls + 1
  /\ prevInfHeaders' = infHeaders
  /\ infHeaders' = currentHeaders
  /\ sinceSettle' = "settled"
  /\ pc' = "recall"
  /\ UNCHANGED <<gatewayVars, reqModel, providerAddress, retryCount, result,
                 currentHeaders, outcome, hdrCalls, settleCalls, listCalls, metaCalls,
                 lastSettle, scenario, allTransient>>

\* settleFee rejects: catch (settleError) { throw settleError }
DirSettleThrow ==
  /\ lastReply' = "settle rejected"
  /\ pc = "settle"
  /\ DirFail("settleFee", NoError)

\* the repeated create() resolves with c
DirRetryReturn(c) ==
  /\ lastReply' = "inference resolved"
  /\ UNCHANGED contentVars
  /\ UNCHANGED quietVars
  /\ variant = "directory"
  /\ pc = "recall"
  /\ DirAccept(c)
  /\ UNCHANGED <<gatewayVars, reqModel, providerAddress, retryCount, currentHeaders,
                 countVars, traceVars>>

\* the repeated create() rejects: catch (settleError) { throw settleError }
DirRetryThrow(e) ==
  /\ lastReply' = "inference rejected"
  /\ pc = "recall"
  /\ DirFail("completion", e)

\* processResponse resolves (isValid only decides a log line): the result
DirProcessReturn ==
  /\ lastReply' = "process resolved"
  /\ UNCHANGED contentVars
  /\ inFlight' = Complete(inFlight, "processResponse")
  /\ UNCHANGED quietVars
  /\ variant = "directory"
  /\ pc = "process"
  /\ pc' = "done"
  /\ outcome' = Returned(result.id, reqModel, result.choices[1].content)
  /\ UNCHANGED <<gatewayVars, reqModel, providerAddress, retryCount, result,
                 currentHeaders, countVars, traceVars>>

DirProcessThrow ==
  /\ lastReply' = "process rejected"
  /\ pc = "process"
  /\ DirFail("processResponse", NoError)

\* ------------------------------------------ POST /v1/chat/completions

\* a message of the request
UserMessage == [role |-> "user", content |-> Str(<<"h", "i">>)]

\* body.model and body.messages as c.req.json() can give them
ModelFields == {Absent, ""} \cup RequestedModels
MessagesFields ==
  { NoMessages,
    [kind |-> "null", items |-> <<>>],
    [kind |-> "string", items |-> <<>>],
    [kind |-> "array", items |-> <<>>],
    [kind |-> "array", items |-> <<UserMessage>>] }
\* a request body that is the JSON text null, and one that is no JSON text
NullRequest == [json |-> "null", model |-> Absent, messages |-> NoMessages]
UnparsableRequest == [json |-> "unparsable", model |-> Absent, messages |-> NoMessages]

\* what await c.req.json() can give or throw on
Bodies ==
  [json : {"object"}, model : ModelFields, messages : MessagesFields]
  \cup {NullRequest, UnparsableRequest}

\* the null of JSON
Null == "<null>"

\* the keys of the error object of both envelopes
EnvelopeKeys == {"message", "type", "param", "code"}

\* c.json({ error: { message, type: "invalid_request_error", param, code: null } },
\*        { status: 400 })
BadRequest(param) ==
  [status |-> 400, keys |-> EnvelopeKeys,
   message |-> IF param = "model" THEN "You must provide a model parameter"
               ELSE "You must provide a messages parameter",
   type |-> "invalid_request_error", param |-> param, code |-> Null]

DefaultMessage == "An error occurred during chat completion"

\* the envelope of the catch block, for an error whose message is text
ServerError(text) ==
  [status |-> 500, keys |-> EnvelopeKeys,
   message |-> IF text # "" THEN text ELSE DefaultMessage,
   type |-> "server_error", param |-> Null, code |-> Null]

\* the message property of the error a call ended with: the text of an error
\* the gateway created, any text for an error of the broker or the provider
UpstreamMessages == {"", "fetch failed"}
MessagesOf(o) == IF o.op = "" THEN {o.error} ELSE UpstreamMessages

\* a catch block that blames the caller for a model that was not found
RouterAnswerNotFound(o, text) ==
  IF o.kind = "returned"
  THEN [NoResponse EXCEPT !.status = 200]
  ELSE IF o.error = "Model not found" THEN BadRequest("model")
  ELSE ServerError(text)

\* c.json(result), or the envelope of the catch block with status 500
RouterAnswer(o, text) ==
  IF o.kind = "returned"
  THEN [NoResponse EXCEPT !.status = 200]
  ELSE ServerError(text)

\* a validation that lets an empty messages array pass
ValidateNoLength(b) ==
  IF b.json # "object" THEN "throw"
  ELSE IF ~Truthy(b.model) THEN "model"
  ELSE IF b.messages.kind \in {"absent", "null"} \/ b.messages.kind # "array"
  THEN "messages"
  ELSE "ok"

\* the message of the error thrown while the body is read: the SyntaxError
\* of c.req.json(), the TypeError of body.model on null
ReadErrorMessage(b) ==
  IF b.json = "null" THEN "Cannot read properties of null (reading 'model')"
  ELSE "Unexpected end of JSON input"

\* the two checks of the route: the param of the 400 answer, or "ok";
\* "throw" when reading the body or body.model throws
Validate(b) ==
  IF b.json # "object" THEN "throw"
  ELSE IF ~Truthy(b.model) THEN "model"
  ELSE IF \/ b.messages.kind \in {"absent", "null"}
          \/ b.messages.kind # "array"
          \/ Len(b.messages.items) = 0
  THEN "messages"
  ELSE "ok"

\* gateway.createChatCompletion of the class that is deployed
CreateChatCompletion(m, msgs) ==
  PinnedCreateChatCompletion(m, msgs) \/ DirCreateChatCompletion(m, msgs)

\* the route handler up to its first await on the gateway
ChatCompletionsPost(b) ==
  /\ pc = "idle"
  /\ body' = b
  /\ IF Validate(b) # "ok"
     THEN /\ response' = IF Validate(b) = "throw"
                          THEN ServerError(ReadErrorMessage(b))
                          ELSE BadRequest(Validate(b))
          /\ UNCHANGED <<gatewayVars, callVars, countVars, traceVars, lastReply,
                         cacheObs, cancel, inFlight, contentVars>>
     ELSE /\ response' = NoResponse
          /\ CreateChatCompletion(b.model, b.messages.items)

\* the caller gives up the request while the route awaits the gateway: the
\* handler passes no abort signal on and nothing in the gateway reads one
Cancel ==
  /\ pc \notin {"idle", "done"}
  /\ ~cancel.requested
  /\ cancel' = [requested |-> TRUE, settleCalls |-> settleCalls]
  /\ UNCHANGED <<gatewayVars, callVars, countVars, traceVars, lastReply, cacheObs,
                 httpVars, inFlight, contentVars>>

\* the call has ended: the route answers, the gateway serves the next request
NextCall ==
  /\ pc = "done"
  /\ CallReset
  /\ endpoint' = NoEndpoint
  /\ cachedAtStart' = FALSE
  /\ \E text \in MessagesOf(outcome) : response' = RouterAnswer(outcome, text)
  /\ cancel' = NotCancelled
  /\ messages' = <<>>
  /\ content' = NoContent
  /\ signed' = NoContent
  /\ sent' = <<>>
  /\ UNCHANGED <<modelsInFlight, refreshed, resolutions, body, inFlight>>
  /\ providerAddress' = IF variant = "pinned" THEN providerAddress ELSE Absent
  /\ UNCHANGED gatewayVars

\* ------------------------------- requests that share the service cache

\* GET /v1/models arrives while other requests are in flight: the route
\* calls gateway.getModels(), which calls listService
ModelsRequest ==
  /\ variant = "directory"
  /\ modelsInFlight < MaxModelsRequests
  /\ modelsInFlight' = modelsInFlight + 1
  /\ UNCHANGED <<gatewayVars, callVars, countVars, traceVars, lastReply, endpoint,
                 cachedAtStart, refreshed, resolutions, httpVars, cancel, inFlight,
                 contentVars>>

\* listService resolves for a GET /v1/models request: getModels writes the
\* listing into the cache and the route answers with the list
ModelsListReturn ==
  /\ variant = "directory"
  /\ modelsInFlight >= 1
  /\ modelsInFlight' = modelsInFlight - 1
  /\ serviceCache' = CacheAll(serviceCache, directory)
  /\ refreshed' = TRUE
  /\ resolutions' = AfterRefresh(resolutions)
  /\ UNCHANGED <<variant, maxRetries, model, directory, callVars, countVars, traceVars,
                 lastReply, endpoint, cachedAtStart, httpVars, cancel, inFlight,
                 contentVars>>

\* listService rejects for a GET /v1/models request: the route answers 500
ModelsListThrow ==
  /\ variant = "directory"
  /\ modelsInFlight >= 1
  /\ modelsInFlight' = modelsInFlight - 1
  /\ UNCHANGED <<gatewayVars, callVars, countVars, traceVars, lastReply, endpoint,
                 cachedAtStart, refreshed, resolutions, httpVars, cancel, inFlight,
                 contentVars>>

\* the listings one step away: a provider withdraws a service or adds one
ChangedListings(listing) ==
  {SubSeq(listing, 1, i - 1) \o SubSeq(listing, i + 1, Len(listing)) :
     i \in 1..Len(listing)}
  \cup {l \in Listings : \E svc \in Services : l = Append(listing, svc)}

\* the marketplace changes: listService answers with another listing from now on
DirectoryChange ==
  /\ variant = "directory"
  /\ directory' \in ChangedListings(directory)
  /\ resolutions' = {}
  /\ refreshed' = FALSE
  /\ UNCHANGED <<variant, maxRetries, model, serviceCache, callVars, countVars,
                 traceVars, lastReply, endpoint, modelsInFlight, cachedAtStart,
                 httpVars, cancel, inFlight, contentVars>>

\* a gateway as initialize() returns it
InitPinned ==
  /\ variant = "pinned"
  /\ maxRetries \in 1..MaxRetriesBound
  /\ model = "llama-3"
  /\ providerAddress = "0xP1"
  /\ directory = <<>>
  /\ serviceCache = <<>>

InitDirectory ==
  /\ variant = "directory"
  /\ maxRetries = 0
  /\ model = Absent
  /\ providerAddress = Absent
  /\ directory \in Listings
  /\ serviceCache = <<>>

Init ==
  /\ InitPinned \/ InitDirectory
  /\ pc = "idle"
  /\ reqModel = Absent
  /\ retryCount = 0
  /\ result = NoResult
  /\ currentHeaders = NoHeaders
  /\ outcome = NoOutcome
  /\ hdrCalls = 0 /\ infCalls = 0 /\ settleCalls = 0
  /\ listCalls = 0 /\ metaCalls = 0
  /\ lastSettle = NoSettle
  /\ infHeaders = NoHeaders /\ prevInfHeaders = NoHeaders
  /\ sinceSettle = "none"
  /\ lastReply = "none"
  /\ scenario = ScenarioStart
  /\ allTransient = TRUE
  /\ endpoint = NoEndpoint
  /\ modelsInFlight = 0
  /\ cachedAtStart = FALSE
  /\ refreshed = FALSE
  /\ resolutions = {}
  /\ body = NoBody
  /\ response = NoResponse
  /\ cancel = NotCancelled
  /\ inFlight = {}
  /\ messages = <<>>
  /\ content = NoContent
  /\ signed = NoContent
  /\ sent = <<>>

Next ==
  \/ \E b \in Bodies : ChatCompletionsPost(b)
  \/ PinnedHeadersReturn
  \/ PinnedHeadersThrow
  \/ \E r \in InferenceResults : PinnedInferenceReturn(r)
  \/ PinnedInferenceThrow
  \/ PinnedSettleReturn
  \/ PinnedSettleThrow
  \/ PinnedDelayElapsed
  \/ DirListReturn
  \/ DirListThrow
  \/ DirMetadataReturn
  \/ DirMetadataThrow
  \/ DirHeadersReturn
  \/ DirHeadersThrow
  \/ \E c \in Completions : DirCompletionReturn(c)
  \/ \E e \in Errors : DirCompletionThrow(e)
  \/ DirSettleReturn
  \/ DirSettleThrow
  \/ \E c \in Completions : DirRetryReturn(c)
  \/ \E e \in Errors : DirRetryThrow(e)
  \/ DirProcessReturn
  \/ DirProcessThrow
  \/ NextCall

Spec == Init /\ [][Next]_vars

\* ---------------------------------------- specifications with fewer inputs
\* one answer of the provider of each kind: a completion with content, a
\* fee shortfall, an error that is not a string
SampleCompletions ==
  {c \in Completions : c.id # Absent /\ (c.body = "object" => Truthy(ContentOf(c)))}
SampleErrors == {ObjectError, TextError(<<SF, EXP, N15, A0GI>>)}

ValidBodies == {b \in Bodies : Validate(b) = "ok"}

SampleResults ==
  {r \in InferenceResults :
     /\ r.id # Absent
     /\ \/ Truthy(ContentOf(r)) /\ r.error = NoError
        \/ ~r.hasChoices /\ r.error \in SampleErrors}

\* The gateway serving a caller who may give up the request at any moment
\* of the call.
NextCancel ==
  \/ \E b \in ValidBodies : ChatCompletionsPost(b)
  \/ Cancel
  \/ PinnedHeadersReturn
  \/ PinnedHeadersThrow
  \/ \E r \in SampleResults : PinnedInferenceReturn(r)
  \/ PinnedInferenceThrow
  \/ PinnedSettleReturn
  \/ PinnedSettleThrow
  \/ PinnedDelayElapsed
  \/ DirListReturn
  \/ DirListThrow
  \/ DirMetadataReturn
  \/ DirMetadataThrow
  \/ DirHeadersReturn
  \/ DirHeadersThrow
  \/ \E c \in SampleCompletions : DirCompletionReturn(c)
  \/ \E e \in SampleErrors : DirCompletionThrow(e)
  \/ DirSettleReturn
  \/ DirSettleThrow
  \/ \E c \in SampleCompletions : DirRetryReturn(c)
  \/ \E e \in SampleErrors : DirRetryThrow(e)
  \/ DirProcessReturn
  \/ DirProcessThrow
  \/ NextCall

SpecCancel == Init /\ [][NextCancel]_vars

\* The retry-loop gateway with a broker, a provider and a timer that answer
\* every call in the end: each await of the loop resolves or rejects.
InitRetryLoop == Init /\ variant = "pinned"

\* one response for each way the try block can go on: content, a fee
\* shortfall, an error that is no string, an error unrelated to fees, a body
\* that is JSON null
LoopResults ==
  SampleResults
  \cup {r \in InferenceResults :
          r.id # Absent /\ ~r.hasChoices /\ r.error = TextError(<<TIMEOUT>>)}
  \cup {NullResult}

HeadersAnswer == PinnedHeadersReturn \/ PinnedHeadersThrow
InferenceAnswer ==
  (\E r \in LoopResults : PinnedInferenceReturn(r)) \/ PinnedInferenceThrow
SettleAnswer == PinnedSettleReturn \/ PinnedSettleThrow

NextRetryLoop ==
  \/ \E b \in ValidBodies : ChatCompletionsPost(b)
  \/ PinnedHeadersReturn
  \/ PinnedHeadersThrow
  \/ \E r \in LoopResults : PinnedInferenceReturn(r)
  \/ PinnedInferenceThrow
  \/ PinnedSettleReturn
  \/ PinnedSettleThrow
  \/ PinnedDelayElapsed
  \/ NextCall

SpecRetryLoop ==
  /\ InitRetryLoop
  /\ [][NextRetryLoop]_vars
  /\ WF_vars(HeadersAnswer)
  /\ WF_vars(InferenceAnswer)
  /\ WF_vars(SettleAnswer)
  /\ WF_vars(PinnedDelayElapsed)

\* The two gateways serving requests for the model of the provider with
\* every message array of up to MaxMessages messages.
ContentBodies ==
  {b \in [json : {"object"}, model : {"llama-3"},
          messages : [kind : {"array"}, items : MessageArrays]] :
     Validate(b) = "ok"}

InitContent == Init /\ maxRetries <= 2 /\ Len(directory) <= 1

NextContent ==
  \/ \E b \in ContentBodies : ChatCompletionsPost(b)
  \/ PinnedHeadersReturn
  \/ PinnedHeadersThrow
  \/ \E r \in SampleResults : PinnedInferenceReturn(r)
  \/ PinnedInferenceThrow
  \/ PinnedSettleReturn
  \/ PinnedSettleThrow
  \/ PinnedDelayElapsed
  \/ DirListReturn
  \/ DirListThrow
  \/ DirMetadataReturn
  \/ DirMetadataThrow
  \/ DirHeadersReturn
  \/ DirHeadersThrow
  \/ \E c \in SampleCompletions : DirCompletionReturn(c)
  \/ \E e \in SampleErrors : DirCompletionThrow(e)
  \/ DirSettleReturn
  \/ DirSettleThrow
  \/ \E c \in SampleCompletions : DirRetryReturn(c)
  \/ \E e \in SampleErrors : DirRetryThrow(e)
  \/ DirProcessReturn
  \/ DirProcessThrow
  \/ NextCall

SpecContent == InitContent /\ [][NextContent]_vars

\* The directory gateway with GET /v1/models requests running beside the
\* chat completion call, and a marketplace that changes.
InitCache == Init /\ variant = "directory"

NextCache ==
  \/ \E b \in ValidBodies : ChatCompletionsPost(b)
  \/ DirListReturn
  \/ DirListThrow
  \/ DirMetadataReturn
  \/ DirMetadataThrow
  \/ DirHeadersReturn
  \/ DirHeadersThrow
  \/ \E c \in SampleCompletions : DirCompletionReturn(c)
  \/ \E e \in SampleErrors : DirCompletionThrow(e)
  \/ DirSettleReturn
  \/ DirSettleThrow
  \/ \E c \in SampleCompletions : DirRetryReturn(c)
  \/ \E e \in SampleErrors : DirRetryThrow(e)
  \/ DirProcessReturn
  \/ DirProcessThrow
  \/ NextCall
  \/ ModelsRequest
  \/ ModelsListReturn
  \/ ModelsListThrow
  \/ DirectoryChange

SpecCache == InitCache /\ [][NextCache]_vars

\* ----------------------------------------------------------------- claims

Pinned == variant = "pinned"
Directory == variant = "directory"
Done == pc = "done"

\* C1: one createChatCompletion call of the retry-loop gateway issues at most
\* maxRetries getRequestHeaders calls and at most maxRetries inference calls,
\* whatever the signer, the provider and the settlement answer.
C1_RetryBound ==
  Pinned => hdrCalls <= maxRetries /\ infCalls <= maxRetries

\* C1 witness: a call that ended after using the whole budget of 3 attempts,
\* each with its signing and its inference call.
C1_Witness ==
  Pinned /\ Done /\ maxRetries = 3 /\ hdrCalls = 3 /\ infCalls = 3

\* C2: a result is returned only from a response with non-empty
\* choices[0].message.content, and it carries that content; a call that ends
\* on a response without content ends by throwing.
C2_ResultHasContent ==
  /\ outcome.kind = "returned" =>
       /\ Truthy(ContentOf(result))
       /\ outcome.content = ContentOf(result)
  /\ Done /\ ~Truthy(ContentOf(result)) => outcome.kind = "threw"

\* C2 witness: a result returned by the retry loop after an attempt without
\* content was retried.
C2_Witness ==
  Pinned /\ outcome.kind = "returned" /\ retryCount >= 1 /\ infCalls >= 2

\* C3: within one call every inference call is sent with a header set
\* fetched by its own getRequestHeaders call after the previous inference
\* call, so no header set is used for two inference calls.
C3_FreshHeadersPerInference ==
  infCalls >= 1 => infHeaders > prevInfHeaders

\* C4 as claimed: when the retry-loop call has ended, every successful
\* settleFee has been followed by a further signing and inference attempt.
C4_SettleThenAttempt ==
  Pinned /\ Done => sinceSettle = "none"

\* C4 as amended: settleFee is invoked only while retryCount < maxRetries;
\* after a successful settlement the next getRequestHeaders call is made
\* exactly when the incremented retryCount is still below maxRetries, and a
\* call that ends with no signing after its last successful settlement has
\* used all maxRetries attempts and fails.
C4_SettleWithinBudget ==
  Pinned =>
    /\ pc = "settle" => retryCount < maxRetries
    /\ sinceSettle = "settled" /\ retryCount < maxRetries => pc = "delay"
    /\ Done /\ sinceSettle = "settled" =>
         /\ retryCount = maxRetries
         /\ hdrCalls = maxRetries
         /\ outcome.kind = "threw"

\* C4 witness: a settlement succeeded on the last of 2 attempts and the call
\* failed without a further attempt.
C4_Witness ==
  Pinned /\ Done /\ maxRetries = 2 /\ sinceSettle = "settled"
  /\ lastReply = "delay resolved" /\ outcome.kind = "threw"

\* C5: first response "settleFee: expected a A0GI" without content, the
\* settlement succeeds, the second response has content: the call returns a
\* result after exactly one settleFee(provider, a), two getRequestHeaders
\* calls and two inference calls.
C5_SettleThenSucceed ==
  Pinned /\ Done /\ scenario.stage = "hit" =>
    /\ maxRetries >= 2
    /\ outcome.kind = "returned"
    /\ settleCalls = 1
    /\ lastSettle = [provider |-> providerAddress, amount |-> Number(scenario.amt)]
    /\ scenario.amt = N20 => lastSettle.amount = [nan |-> FALSE, num |-> 2, den |-> 1]
    /\ scenario.amt = N15 => lastSettle.amount = [nan |-> FALSE, num |-> 15, den |-> 10]
    /\ hdrCalls = 2
    /\ infCalls = 2

\* C5 witness: the scenario with a = 2.0 has run to its end.
C5_Witness ==
  Pinned /\ Done /\ scenario = [stage |-> "hit", amt |-> N20]

\* C6: a failing settleFee call does not abort the request: no call ends by
\* throwing the error of settleFee.
C6_SettleFailureNotFatal ==
  ~(Done /\ outcome.kind = "threw" /\ outcome.op = "settleFee")

\* the amounts n of the places "expected <n> A0GI" of an error text
AmountsIn(text) ==
  {text[i + 1] : i \in {j \in 1..Len(text) :
                          /\ j + 2 <= Len(text)
                          /\ text[j] = EXP
                          /\ IsDecimal(text[j + 1])
                          /\ text[j + 2] = A0GI}}

\* C7: whenever the response of an attempt has no content and its error text
\* contains "expected <n> A0GI", settleFee(provider, n) is invoked with
\* exactly the amount n, whatever else the text contains.
C7_ShortfallSettled ==
  /\ Pinned
  /\ lastReply = "inference resolved"
  /\ ~Truthy(ContentOf(result))
  /\ result.error.kind = "string"
  /\ AmountsIn(result.error.text) # {}
  => /\ pc = "settle"
     /\ lastSettle.provider = providerAddress
     /\ lastSettle.amount \in {Number(n) : n \in AmountsIn(result.error.text)}

\* C8: with maxRetries = N, if every attempt is answered by an error
\* unrelated to fees and without content, the call fails with the error of
\* the exhausted loop after exactly N getRequestHeaders calls and N inference
\* calls, and makes no settleFee call.
C8_Exhaustion ==
  Pinned /\ Done /\ allTransient =>
    /\ outcome.kind = "threw"
    /\ outcome.error \in {"No valid completion received", "No content received."}
    /\ hdrCalls = maxRetries
    /\ infCalls = maxRetries
    /\ settleCalls = 0

\* C8 witness: three attempts, each answered by an error unrelated to fees.
C8_Witness ==
  Pinned /\ Done /\ allTransient /\ maxRetries = 3 /\ infCalls = 3
  /\ result.error = TextError(<<TIMEOUT>>)

\* the requested model is the model of some cache entry
InCache == \E i \in 1..Len(serviceCache) : serviceCache[i].model = reqModel

\* C9: in the directory gateway a call for a model that is in neither the
\* cache nor the refreshed directory fails with the model-not-found error
\* after one listing, with no getRequestHeaders, getServiceMetadata,
\* inference or settleFee call, and is not retried.
C9_ModelNotFound ==
  Directory /\ reqModel # Absent /\ ~InCache =>
    /\ listCalls = 1
    /\ hdrCalls = 0 /\ metaCalls = 0 /\ infCalls = 0 /\ settleCalls = 0
    /\ lastReply = "list resolved" =>
         /\ Done
         /\ outcome = [Threw("Model not found") EXCEPT !.model = reqModel]

\* C9 witness: the listing was refreshed into a cache that holds services,
\* none of them for the requested model.
C9_Witness ==
  Directory /\ Done /\ outcome.error = "Model not found"
  /\ Len(serviceCache) >= 1 /\ reqModel = UnknownModel

\* C10: in the retry-loop gateway a call whose modelId differs from the
\* model of the pinned provider fails with ModelNotFound and makes no signer
\* or inference call.
C10_PinnedModelResolved ==
  Pinned /\ reqModel # Absent /\ reqModel # model =>
    /\ hdrCalls = 0
    /\ infCalls = 0
    /\ Done => outcome.error = "Model not found"

\* C11: a returned result has exactly one choice with index 0, role
\* "assistant" and finish_reason "stop", usage counters all 0, and its model
\* field is the model id the caller requested.
C11_ResultEchoesModel ==
  outcome.kind = "returned" =>
    /\ outcome.choices = 1
    /\ outcome.index = 0
    /\ outcome.role = "assistant"
    /\ outcome.finish_reason = "stop"
    /\ outcome.usage = ZeroUsage
    /\ outcome.model = reqModel

\* C12: model resolution of the directory gateway calls listService exactly
\* once when the first cache scan does not meet the requested model and not
\* at all when it does, whether or not the model is found after the refresh.
C12_OneRefreshPerMiss ==
  Directory /\ pc # "idle" => listCalls = IF cachedAtStart THEN 0 ELSE 1

\* C12 witness: a call for a model that an earlier refresh had put into the
\* cache has returned its result without a listService call.
C12_Witness ==
  /\ Directory /\ Done /\ cachedAtStart /\ listCalls = 0
  /\ outcome.kind = "returned"

\* C13: a refresh replaces the whole cache: once a getModels has completed
\* and the directory has not changed since, the cache holds exactly the
\* records of the listing, so a service that is no longer listed cannot be
\* resolved from the cache.
C13_RefreshReplacesCache ==
  Directory /\ refreshed => Records(serviceCache) = Records(directory)

\* C14: all resolutions of one model id made while the directory stays as it
\* is give the same provider and the same endpoint, also with refreshes of
\* the cache between them; the provider a call finds in the cache is the
\* provider of the earlier resolutions.
C14_ResolutionIdempotent ==
  Directory =>
    /\ \A a, b \in resolutions :
         a.model = b.model => a.provider = b.provider /\ a.endpoint = b.endpoint
    /\ \A r \in resolutions :
         pc = "meta" /\ r.model = reqModel => r.provider = providerAddress

\* C14 witness: the cache holds two providers of the requested model, the
\* model was resolved, a getModels refreshed the cache, and a second call has
\* found the provider of the first resolution in the cache.
C14_Witness ==
  /\ Directory /\ pc = "meta" /\ cachedAtStart
  /\ Cardinality({c \in Records(serviceCache) : c.model = reqModel}) = 2
  /\ \E r \in resolutions :
       r.model = reqModel /\ r.refreshedSince /\ r.provider = providerAddress

\* C17: a refresh is never seen half written: in every state a lookup can
\* run in, the cache holds every record of the listing that the latest
\* getModels wrote, whatever other requests and refreshes are in flight.
C17_RefreshNotTorn ==
  Directory /\ refreshed => Records(directory) \subseteq Records(serviceCache)

\* C17 witness: a call missed the cache and waits for its listService call
\* while a GET /v1/models request has written a listing of two services, one
\* of them for the requested model, and a further one is in flight.
C17_Witness ==
  /\ Directory /\ pc = "list" /\ refreshed /\ modelsInFlight >= 1
  /\ Cardinality(Records(directory)) = 2
  /\ Holds(serviceCache, reqModel)

\* a request the route must refuse: model missing or empty, or messages
\* missing, not an array, or an empty array; a body that is JSON null or no
\* JSON at all has neither field
Invalid(b) ==
  \/ b.json # "object"
  \/ b.model \in {Absent, ""}
  \/ b.messages.kind # "array"
  \/ b.messages.items = <<>>

\* the fields of b that are at fault
OffendingFields(b) ==
  {f \in {"model"} : b.model \in {Absent, ""}}
  \cup {f \in {"messages"} : b.messages.kind # "array" \/ b.messages.items = <<>>}

\* C15: a POST /v1/chat/completions whose model is missing or empty, or whose
\* messages is missing, not an array or empty, is answered with status 400,
\* type invalid_request_error and the offending field as param, and the
\* gateway is not called for it: no call is started and no broker or
\* provider operation is issued.
C15_ValidationFirst ==
  body # NoBody /\ Invalid(body) =>
    /\ response.status = 400
    /\ response.type = "invalid_request_error"
    /\ response.param \in OffendingFields(body)
    /\ pc = "idle" /\ reqModel = Absent
    /\ listCalls = 0 /\ metaCalls = 0 /\ hdrCalls = 0
    /\ infCalls = 0 /\ settleCalls = 0

\* C15 witness: a request for a known model with an empty messages array was
\* refused with param "messages", after an earlier request had been served.
C15_Witness ==
  /\ body = [json |-> "object", model |-> "llama-3",
             messages |-> [kind |-> "array", items |-> <<>>]]
  /\ response = BadRequest("messages")
  /\ Directory /\ Len(serviceCache) >= 1

\* C16: the attempts of one call are strictly sequential: at most one
\* outbound operation of the call is outstanding at any moment, a signing
\* starts only when no inference call or settlement is outstanding, and
\* nothing is outstanding while the call waits out its delay or has ended.
C16_Sequential ==
  /\ Cardinality(inFlight) <= 1
  /\ pc = "sign" => inFlight = {"getRequestHeaders"}
  /\ pc \in {"idle", "delay", "done"} => inFlight = {}

\* C16 witness: the second attempt of the retry loop has started its signing
\* after the inference call and the settlement of the first attempt.
C16_Witness ==
  /\ Pinned /\ pc = "sign" /\ hdrCalls = 2 /\ infCalls = 1 /\ settleCalls = 1
  /\ inFlight = {"getRequestHeaders"}

\* C18: once the caller has cancelled the request, the call invokes no
\* settleFee: the number of settleFee calls stays what it was then.
C18_NoSettleAfterCancel ==
  cancel.requested => settleCalls = cancel.settleCalls

\* C19: no error thrown by createChatCompletion is the fee-shortfall error of
\* the provider (an error whose text holds "expected <n> A0GI").
C19_ShortfallNotSurfaced ==
  ~(/\ Done
    /\ outcome.kind = "threw"
    /\ outcome.cause.kind = "string"
    /\ AmountsIn(outcome.cause.text) # {})

\* C20: every returned result has a non-empty id, also when the response of
\* the provider has no id field.
C20_IdSubstituted ==
  outcome.kind = "returned" => Truthy(outcome.id)

\* the content fields of the messages of a request body
BodyContents(msgs) == [i \in 1..Len(msgs) |-> msgs[i].content]

\* C21: in every attempt the content string passed to getRequestHeaders is
\* the message content sent in the body of the inference call made with those
\* headers: the body carries one message content, the signed string.
C21_SignedContentIsBodyContent ==
  sent # <<>> => BodyContents(sent) = <<Str(signed)>>

\* the place in the content where the rendering of message i begins
RECURSIVE Offset(_, _)
Offset(msgs, i) ==
  IF i = 1 THEN 1 ELSE Offset(msgs, i - 1) + Len(Render(msgs[i - 1])) + 1

\* String.prototype.split("\n")
RECURSIVE Lines(_)
Lines(text) ==
  LET breaks == {i \in 1..Len(text) : text[i] = NL}
  IN  IF breaks = {} THEN <<text>>
      ELSE <<SubSeq(text, 1, Min(breaks) - 1)>>
           \o Lines(SubSeq(text, Min(breaks) + 1, Len(text)))

\* no message content holds a line break
SingleLine(msgs) ==
  \A i \in 1..Len(msgs) : \A k \in 1..Len(StringOf(msgs[i].content)) :
    StringOf(msgs[i].content)[k] # NL

\* C22: the content is the messages rendered as "<role>: <content>", joined
\* by a line break, in the order of the array: the rendering of message i
\* stands in the content after the renderings of the messages before it,
\* with a line break between two renderings and nothing else, so the content
\* is fixed by the array and flattening it again gives the same content;
\* when no message content holds a line break, line i of the content is the
\* rendering of message i.
C22_FlattenOrderPreserving ==
  content # NoContent =>
    /\ Len(content) = Offset(messages, Len(messages))
                        + Len(Render(messages[Len(messages)])) - 1
    /\ \A i \in 1..Len(messages) :
         SubSeq(content, Offset(messages, i),
                Offset(messages, i) + Len(Render(messages[i])) - 1)
           = Render(messages[i])
    /\ \A i \in 2..Len(messages) : content[Offset(messages, i) - 1] = NL
    /\ content = Flatten(messages)
    /\ SingleLine(messages) => Lines(content) = MapRender(messages)

\* C22 witness: an array of two different messages, the first with a content
\* of two lines, has been flattened and its content signed.
C22_Witness ==
  /\ Len(messages) = 2 /\ messages[1].role # messages[2].role
  /\ messages[1].content = Str(<<"a", NL, "b">>)
  /\ content # NoContent /\ signed = content /\ pc = "sign"

\* the route has answered with an error
ErrorResponse == response.status \notin {0, 200}

\* C23: every error response of POST /v1/chat/completions has the body
\* {error: {message, type, param, code}} with type invalid_request_error or
\* server_error; type invalid_request_error goes with status 400 and is given
\* only to a body that fails the validation of model and messages, and every
\* error thrown by gateway.createChatCompletion is answered with status 500
\* and type server_error.
C23_UniformEnvelope ==
  /\ [](ErrorResponse =>
         /\ response.keys = {"message", "type", "param", "code"}
         /\ response.message # ""
         /\ \/ /\ response.type = "invalid_request_error"
               /\ response.status = 400
               /\ body.json = "object"
               /\ response.param \in OffendingFields(body)
               /\ response.code = Null
            \/ /\ response.type = "server_error"
               /\ response.status = 500
               /\ response.param = Null
               /\ response.code = Null)
  /\ [][pc = "done" /\ pc' = "idle" /\ outcome.kind = "threw" =>
          /\ response'.status = 500
          /\ response'.type = "server_error"
          /\ response'.message \in {outcome.error, "fetch failed", DefaultMessage}]_vars

\* C23 witness: a call for a model that no provider lists was answered with
\* status 500, type server_error and the message of the error.
C23_Witness ==
  /\ Directory /\ pc = "idle" /\ body.model = UnknownModel
  /\ response = ServerError("Model not found")

\* C24: in the retry-loop gateway a response with non-empty content ends the
\* loop: the call is over with nothing outstanding and no settleFee call for
\* that response, also when the response carries a fee error, and it returns
\* the content of that response; a result is returned only as the direct
\* answer to the response of the last attempt, so a response kept from an
\* earlier attempt is never returned after a later attempt threw.
C24_SuccessEndsLoop ==
  Pinned =>
    /\ lastReply = "inference resolved" /\ Truthy(ContentOf(result)) =>
         /\ pc = "done"
         /\ inFlight = {}
         /\ settleCalls <= retryCount
         /\ hdrCalls = retryCount + 1
         /\ outcome.kind = "returned"
         /\ outcome.content = ContentOf(result)
    /\ outcome.kind = "returned" =>
         /\ lastReply = "inference resolved"
         /\ Truthy(ContentOf(result))

\* C24 witness: the third attempt was answered with content and a fee error
\* after the first attempt was settled and the second threw in its signing;
\* the call returned without a second settlement.
C24_Witness ==
  /\ Pinned /\ Done /\ outcome.kind = "returned" /\ retryCount = 2
  /\ result.error = TextError(<<SF, EXP, N15, A0GI>>)
  /\ infCalls = 2 /\ hdrCalls = 3 /\ settleCalls = 1

\* the loop body is running: between the loop test and the end of the
\* iteration
InIteration == pc \in {"sign", "call", "settle"}

\* C25: when every getRequestHeaders call, inference call, settleFee call and
\* delay returns or throws in the end, each createChatCompletion call of the
\* retry-loop gateway ends, returning a result or throwing; every iteration
\* that goes on to the delay, at the end of the try block or through the
\* catch block, adds exactly one to retryCount, and nothing else changes it
\* during the call.
C25_Termination ==
  /\ (Pinned /\ pc # "idle") ~> (Done /\ outcome.kind \in {"returned", "threw"})
  /\ [][Pinned /\ pc \notin {"idle", "done"} =>
          /\ retryCount' = IF InIteration /\ pc' = "delay"
                            THEN retryCount + 1 ELSE retryCount
          /\ pc' = "delay" => retryCount' = hdrCalls'
          /\ retryCount' <= maxRetries]_vars

\* C25 witness: a call with maxRetries = 3 has ended by throwing after three
\* iterations: one ended by a rejected signing, one after a settlement, one
\* at the end of the try block.
C25_Witness ==
  /\ Pinned /\ Done /\ outcome.kind = "threw" /\ maxRetries = 3
  /\ retryCount = 3 /\ hdrCalls = 3 /\ infCalls = 2 /\ settleCalls = 1
  /\ sinceSettle = "signed"

\* C26: in the retry-loop gateway every settleFee call directly follows an
\* inference call of the same attempt whose response had no content and a
\* fee-shortfall error with an amount that parses as a number, and it is
\* made with that amount; an attempt makes at most one settleFee call, and
\* none when its signing or its inference call threw; hence
\* settleFee calls <= inference calls <= getRequestHeaders calls <= maxRetries.
C26_SettleOnlyOnShortfall ==
  Pinned =>
    /\ pc = "settle" =>
         /\ lastReply = "inference resolved"
         /\ hdrCalls = retryCount + 1 /\ infHeaders = hdrCalls
         /\ ~Truthy(ContentOf(result))
         /\ result.error.kind = "string"
         /\ IncludesSettleFee(result.error.text)
         /\ AmountsIn(result.error.text) # {}
         /\ lastSettle.amount \in {Number(n) : n \in AmountsIn(result.error.text)}
    /\ settleCalls <= retryCount + (IF pc = "settle" THEN 1 ELSE 0)
    /\ lastReply \in {"headers rejected", "inference rejected"} => pc = "delay"
    /\ settleCalls <= infCalls
    /\ infCalls <= hdrCalls
    /\ hdrCalls <= maxRetries

====
